---- MODULE Spec2Model ----
(***************************************************************************)
(* Model of app.py: the Streamlit dashboard that gates on a fixed login,   *)
(* initialises Earth Engine, partitions a date range into months           *)
(* (month_ranges), issues one remote query pair per month                  *)
(* (compute_monthly_water_area) and renders a map, a table and a chart.    *)
(*                                                                         *)
(* A script run is modelled statement group by statement group: pc is the  *)
(* position of the run in the script, "idle" between two runs.             *)
(***************************************************************************)
EXTENDS Integers, Sequences, FiniteSets, TLC

VARIABLES
    authenticated,  \* st.session_state.authenticated
    pc,             \* position of the current script run
    u, p, clicked,  \* login widgets: username, password, "Log in" pressed
    start_date,     \* st.date_input("Start date")
    end_date,       \* st.date_input("End date (inclusive)")
    out,            \* what the current run has rendered so far, in order
    ee_ready,       \* ee.Initialize succeeded in the current run
    aoi_built,      \* make_square_box has run in the current run
    ranges,         \* the pairs yielded by month_ranges in the current run
    idx,            \* index in ranges of the month being processed
    rows,           \* compute_monthly_water_area's rows / the DataFrame df
    last,           \* the most recent remote call of the run and its answer
    returned,       \* compute_monthly_water_area has returned in this run
    status          \* how the last run ended

vars == <<authenticated, pc, u, p, clicked, start_date, end_date, out,
          ee_ready, aoi_built, ranges, idx, rows, last, returned, status>>

----------------------------------------------------------------------------
(* Bounds and program constants *)

NumYears == 2          \* calendar years covered by the month_ranges inputs
BaseYear == 2024       \* first of them: the year of DEFAULT_START

VALID_USER == "ndsa"
VALID_PASS == "cwprs"

Users == {"", VALID_USER, "guest"}
Passwords == {"", VALID_PASS, "1234"}

----------------------------------------------------------------------------
(* datetime.date *)

Date(y, m, d) == [y |-> y, m |-> m, d |-> d]

IsLeap(y) == (y % 4 = 0 /\ y % 100 # 0) \/ y % 400 = 0

DaysInMonth(y, m) ==
    IF m = 2 THEN (IF IsLeap(y) THEN 29 ELSE 28)
    ELSE IF m \in {4, 6, 9, 11} THEN 30 ELSE 31

\* date.__lt__
DateLT(a, b) ==
    \/ a.y < b.y
    \/ a.y = b.y /\ a.m < b.m
    \/ a.y = b.y /\ a.m = b.m /\ a.d < b.d

\* max(a, b) and min(a, b) on dates, as the builtins compute them
DateMax(a, b) == IF DateLT(a, b) THEN b ELSE a
DateMin(a, b) == IF DateLT(b, a) THEN b ELSE a

\* d + timedelta(days=1)
NextDay(d) ==
    IF d.d < DaysInMonth(d.y, d.m) THEN Date(d.y, d.m, d.d + 1)
    ELSE IF d.m = 12 THEN Date(d.y + 1, 1, 1)
    ELSE Date(d.y, d.m + 1, 1)

DEFAULT_START == Date(2024, 6, 1)
DEFAULT_END == Date(2025, 6, 30)

----------------------------------------------------------------------------
(* month_ranges *)

\* the first value of cur: first day of start_date's month
first_cur(sd) == Date(sd.y, sd.m, 1)

\* end_excl: first day of the month after end_date
end_excl_of(ed) ==
    IF ed.m = 12 THEN Date(ed.y + 1, 1, 1) ELSE Date(ed.y, ed.m + 1, 1)

\* nxt: first day of the month after cur
nxt_of(cur) ==
    IF cur.m = 12 THEN Date(cur.y + 1, 1, 1) ELSE Date(cur.y, cur.m + 1, 1)

\* the while loop: the pairs yielded from cursor cur on
RECURSIVE month_loop(_, _, _)
month_loop(cur, sd, end_excl) ==
    IF ~DateLT(cur, end_excl) THEN << >>
    ELSE LET nxt == nxt_of(cur)
             start == DateMax(cur, sd)
             end == DateMin(nxt, end_excl)
         IN  (IF DateLT(start, end) THEN << <<start, end>> >> ELSE << >>)
             \o month_loop(nxt, sd, end_excl)

month_ranges(sd, ed) == month_loop(first_cur(sd), sd, end_excl_of(ed))

----------------------------------------------------------------------------
(* Inputs *)

DaySet == {1, 2, 10, 15, 28, 29, 30, 31}

\* the dates month_ranges is applied to
MRDates ==
    {Date(y, m, d) : y \in BaseYear..(BaseYear + NumYears - 1),
                     m \in 1..12,
                     d \in {x \in DaySet : x <= 28}}
    \cup {dd \in [y : BaseYear..(BaseYear + NumYears - 1), m : 1..12,
                  d : {x \in DaySet : x > 28}] : dd.d <= DaysInMonth(dd.y, dd.m)}

\* the dates the user picks in the two date widgets
AppDates == {DEFAULT_START, DEFAULT_END,
             Date(2024, 12, 15), Date(2025, 1, 10), Date(2025, 1, 31)}

\* answers of the remote service
Resp(k, v) == [kind |-> k, val |-> v]
Failed == Resp("fail", 0)
\* col.size().getInfo(): raises, or the number of images
SizeResponses == {Failed, Resp("ok", 0), Resp("ok", 3)}
\* pixel_count.getInfo(): raises, None, or the sum, here in tenths
ReduceResponses == {Failed, Resp("none", 0), Resp("ok", 5), Resp("ok", 25)}
\* ee.ServiceAccountCredentials / ee.Initialize and the configured key
KeyStates == {"ok", "missing", "bad_json", "init_fail"}

NoCall == [idx |-> 0, call |-> "none", resp |-> Resp("none", 0)]

----------------------------------------------------------------------------
(* The script, top to bottom *)

Script_reordered ==
    << "gate", "init_ee", "date_check", "build_aoi", "render_map",
       "render_table", "compute", "prepare", "render_chart", "notes" >>

Script ==
    << "gate", "init_ee", "date_check", "build_aoi", "render_map",
       "compute", "prepare", "render_table", "render_chart", "notes" >>

\* the statement group that follows group s in the script
NextStep(s) ==
    LET i == CHOOSE k \in 1..Len(Script) : Script[k] = s
    IN  IF i < Len(Script) THEN Script[i + 1] ELSE "idle"

\* st.stop(): the run ends here
Stop(o) ==
    /\ pc' = "idle"
    /\ status' = "stopped"
    /\ out' = o

\* the per-run state at the start of a script run
FreshRun ==
    /\ pc' = "gate"
    /\ status' = "running"
    /\ out' = << >>
    /\ ee_ready' = FALSE
    /\ aoi_built' = FALSE
    /\ ranges' = << >>
    /\ idx' = 0
    /\ rows' = << >>
    /\ last' = NoCall
    /\ returned' = FALSE

Init ==
    /\ authenticated = FALSE
    /\ pc = "gate"
    /\ status = "running"
    /\ u = ""
    /\ p = ""
    /\ clicked = FALSE
    /\ start_date = DEFAULT_START
    /\ end_date = DEFAULT_END
    /\ out = << >>
    /\ ee_ready = FALSE
    /\ aoi_built = FALSE
    /\ ranges = << >>
    /\ idx = 0
    /\ rows = << >>
    /\ last = NoCall
    /\ returned = FALSE

----------------------------------------------------------------------------
(* Login gate *)

CredentialsOK_userOnly(user, pass) == user = VALID_USER

\* u == VALID_USER and p == VALID_PASS
CredentialsOK(user, pass) == user = VALID_USER /\ pass = VALID_PASS

\* The user edits the login form; Streamlit re-runs the script.
InteractLogin(nu, np, nc) ==
    /\ pc = "idle"
    /\ ~authenticated
    /\ u' = nu
    /\ p' = np
    /\ clicked' = nc
    /\ FreshRun
    /\ UNCHANGED <<authenticated, start_date, end_date>>

\* The user edits the date widgets; Streamlit re-runs the script.
InteractDates(sd, ed) ==
    /\ pc = "idle"
    /\ authenticated
    /\ start_date' = sd
    /\ end_date' = ed
    /\ clicked' = FALSE
    /\ FreshRun
    /\ UNCHANGED <<authenticated, u, p>>

\* if not authenticated: ... is skipped
GatePass ==
    /\ pc = "gate"
    /\ authenticated
    /\ pc' = NextStep("gate")
    /\ UNCHANGED <<authenticated, u, p, clicked, start_date, end_date, out,
                   ee_ready, aoi_built, ranges, idx, rows, last, returned,
                   status>>

\* login_form() with matching credentials: flag set, st.experimental_rerun()
LoginOK ==
    /\ pc = "gate"
    /\ ~authenticated
    /\ clicked
    /\ CredentialsOK(u, p)
    /\ authenticated' = TRUE
    /\ clicked' = FALSE
    /\ FreshRun
    /\ UNCHANGED <<u, p, start_date, end_date>>

\* login_form() without a successful login, then st.stop()
LoginRejected ==
    /\ pc = "gate"
    /\ ~authenticated
    /\ ~(clicked /\ CredentialsOK(u, p))
    /\ Stop(IF clicked THEN out \o <<"login_form", "login_error">>
                       ELSE out \o <<"login_form">>)
    /\ UNCHANGED <<authenticated, u, p, clicked, start_date, end_date,
                   ee_ready, aoi_built, ranges, idx, rows, last, returned>>

----------------------------------------------------------------------------
(* Earth Engine initialisation, date check, AOI and map *)

init_ee(key) ==
    /\ pc = "init_ee"
    /\ IF key = "ok"
       THEN /\ ee_ready' = TRUE
            /\ pc' = NextStep("init_ee")
            /\ UNCHANGED <<out, status>>
       ELSE /\ Stop(out \o <<"ee_error">>)
            /\ UNCHANGED ee_ready
    /\ UNCHANGED <<authenticated, u, p, clicked, start_date, end_date,
                   aoi_built, ranges, idx, rows, last, returned>>

DateRangeInvalid_yearOnly(sd, ed) == sd.y > ed.y

\* start_date > end_date
DateRangeInvalid(sd, ed) == DateLT(ed, sd)

\* st.title, the two date inputs, and the start/end check
DateCheck ==
    /\ pc = "date_check"
    /\ IF DateRangeInvalid(start_date, end_date)
       THEN Stop(out \o <<"title", "date_error">>)
       ELSE /\ pc' = NextStep("date_check")
            /\ out' = out \o <<"title">>
            /\ UNCHANGED status
    /\ UNCHANGED <<authenticated, u, p, clicked, start_date, end_date,
                   ee_ready, aoi_built, ranges, idx, rows, last, returned>>

\* the AOI inputs and make_square_box
BuildAOI ==
    /\ pc = "build_aoi"
    /\ aoi_built' = TRUE
    /\ pc' = NextStep("build_aoi")
    /\ UNCHANGED <<authenticated, u, p, clicked, start_date, end_date, out,
                   ee_ready, ranges, idx, rows, last, returned, status>>

\* make_map and st_folium
RenderMap ==
    /\ pc = "render_map"
    /\ out' = out \o <<"map">>
    /\ pc' = NextStep("render_map")
    /\ UNCHANGED <<authenticated, u, p, clicked, start_date, end_date,
                   ee_ready, aoi_built, ranges, idx, rows, last, returned,
                   status>>

----------------------------------------------------------------------------
(* compute_monthly_water_area *)

\* m_start.strftime("%Y-%m")
Label(d) == <<d.y, d.m>>

\* int(x) on a non-negative number given in tenths: truncation
PyInt(tenths) == tenths \div 10

\* the try/except around int(pixel_count.getInfo())
PixelCount(resp) == IF resp.kind = "ok" THEN PyInt(resp.val) ELSE 0

AreaM2_tenPerPixel(pixel_count) == pixel_count * 10

\* area_m2 = pixel_count * 100.0
AreaM2(pixel_count) == pixel_count * 100

Row(label, pixel_count, area_m2) ==
    [month |-> label, pixel_count |-> pixel_count, area_m2 |-> area_m2]

AppendRow_atFront(rs, r) == <<r>> \o rs

\* rows.append(...)
AppendRow(rs, r) == Append(rs, r)

\* the for loop takes the next pair of month_ranges, or the function
\* returns pd.DataFrame(rows)
LoopNext ==
    IF idx < Len(ranges)
    THEN /\ idx' = idx + 1
         /\ pc' = "q_size"
         /\ UNCHANGED returned
    ELSE /\ returned' = TRUE
         /\ pc' = NextStep("compute")
         /\ UNCHANGED idx

\* the call: rows = [], the generator is created and the loop entered
ComputeStart ==
    /\ pc = "compute"
    /\ ranges' = month_ranges(start_date, end_date)
    /\ rows' = << >>
    /\ IF ranges' = << >>
       THEN /\ returned' = TRUE
            /\ pc' = NextStep("compute")
            /\ UNCHANGED idx
       ELSE /\ idx' = 1
            /\ pc' = "q_size"
            /\ UNCHANGED returned
    /\ UNCHANGED <<authenticated, u, p, clicked, start_date, end_date, out,
                   ee_ready, aoi_built, last, status>>

\* col.size().getInfo() answered
QuerySize(resp) ==
    /\ pc = "q_size"
    /\ last' = [idx |-> idx, call |-> "size", resp |-> resp]
    /\ IF resp.kind = "fail"
       THEN \* the exception leaves the function and ends the script run
            /\ pc' = "idle"
            /\ status' = "aborted"
            /\ out' = out \o <<"exception">>
            /\ UNCHANGED <<rows, idx, returned>>
       ELSE IF resp.val = 0
       THEN /\ rows' = AppendRow(rows, Row(Label(ranges[idx][1]), 0, 0))
            /\ LoopNext
            /\ UNCHANGED <<out, status>>
       ELSE /\ pc' = "q_reduce"
            /\ UNCHANGED <<rows, idx, returned, out, status>>
    /\ UNCHANGED <<authenticated, u, p, clicked, start_date, end_date,
                   ee_ready, aoi_built, ranges>>

\* the reduceRegion result fetched: pixel_count.getInfo() answered
QueryReduce(resp) ==
    /\ pc = "q_reduce"
    /\ last' = [idx |-> idx, call |-> "reduce", resp |-> resp]
    /\ LET pixel_count == PixelCount(resp)
           area_m2 == AreaM2(pixel_count)
       IN  rows' = AppendRow(rows,
                             Row(Label(ranges[idx][1]), pixel_count, area_m2))
    /\ LoopNext
    /\ UNCHANGED <<authenticated, u, p, clicked, start_date, end_date, out,
                   ee_ready, aoi_built, ranges, status>>

----------------------------------------------------------------------------
(* Display *)

\* order of the month_dt column
LabelLT(a, b) == a[1] < b[1] \/ (a[1] = b[1] /\ a[2] < b[2])

RECURSIVE InsertRow(_, _)
InsertRow(r, s) ==
    IF s = << >> THEN <<r>>
    ELSE IF LabelLT(r.month, Head(s).month) THEN <<r>> \o s
    ELSE <<Head(s)>> \o InsertRow(r, Tail(s))

\* df.sort_values("month_dt")
RECURSIVE SortByMonth(_)
SortByMonth(s) ==
    IF s = << >> THEN << >> ELSE InsertRow(Head(s), SortByMonth(Tail(s)))

\* df["area_km2"] = df["area_m2"] / 1e6, kept as a fraction
WithKm2(r) ==
    [month |-> r.month, pixel_count |-> r.pixel_count, area_m2 |-> r.area_m2,
     area_km2 |-> <<r.area_m2, 1000000>>]

\* the df.empty check and the preparation of df for display
Prepare ==
    /\ pc = "prepare"
    /\ IF rows = << >>
       THEN /\ Stop(out \o <<"warning">>)
            /\ UNCHANGED rows
       ELSE /\ rows' = [i \in 1..Len(rows) |-> WithKm2(SortByMonth(rows)[i])]
            /\ pc' = NextStep("prepare")
            /\ UNCHANGED <<out, status>>
    /\ UNCHANGED <<authenticated, u, p, clicked, start_date, end_date,
                   ee_ready, aoi_built, ranges, idx, last, returned>>

\* st.dataframe
RenderTable ==
    /\ pc = "render_table"
    /\ out' = out \o <<"table">>
    /\ pc' = NextStep("render_table")
    /\ UNCHANGED <<authenticated, u, p, clicked, start_date, end_date,
                   ee_ready, aoi_built, ranges, idx, rows, last, returned,
                   status>>

\* st.altair_chart
RenderChart ==
    /\ pc = "render_chart"
    /\ out' = out \o <<"chart">>
    /\ pc' = NextStep("render_chart")
    /\ UNCHANGED <<authenticated, u, p, clicked, start_date, end_date,
                   ee_ready, aoi_built, ranges, idx, rows, last, returned,
                   status>>

\* the "Method & Notes" expander; the script ends
Notes ==
    /\ pc = "notes"
    /\ out' = out \o <<"notes">>
    /\ pc' = NextStep("notes")
    /\ status' = "done"
    /\ UNCHANGED <<authenticated, u, p, clicked, start_date, end_date,
                   ee_ready, aoi_built, ranges, idx, rows, last, returned>>

----------------------------------------------------------------------------
(* The dashboard *)

Next ==
    \/ \E nu \in Users, np \in Passwords, nc \in BOOLEAN :
          InteractLogin(nu, np, nc)
    \/ \E sd \in AppDates, ed \in AppDates : InteractDates(sd, ed)
    \/ GatePass
    \/ LoginOK
    \/ LoginRejected
    \/ \E key \in KeyStates : init_ee(key)
    \/ DateCheck
    \/ BuildAOI
    \/ RenderMap
    \/ ComputeStart
    \/ \E resp \in SizeResponses : QuerySize(resp)
    \/ \E resp \in ReduceResponses : QueryReduce(resp)
    \/ Prepare
    \/ RenderTable
    \/ RenderChart
    \/ Notes

Spec == Init /\ [][Next]_vars

----------------------------------------------------------------------------
(* month_ranges on its own, applied to every pair start_date <= end_date *)

InitMR ==
    /\ start_date \in MRDates
    /\ end_date \in MRDates
    /\ ~DateLT(end_date, start_date)
    /\ pc = "month_ranges"
    /\ authenticated = TRUE
    /\ status = "running"
    /\ u = VALID_USER
    /\ p = VALID_PASS
    /\ clicked = FALSE
    /\ out = << >>
    /\ ee_ready = TRUE
    /\ aoi_built = TRUE
    /\ ranges = << >>
    /\ idx = 0
    /\ rows = << >>
    /\ last = NoCall
    /\ returned = FALSE

\* list(month_ranges(start_date, end_date))
CallMonthRanges ==
    /\ pc = "month_ranges"
    /\ ranges' = month_ranges(start_date, end_date)
    /\ pc' = "mr_done"
    /\ UNCHANGED <<authenticated, u, p, clicked, start_date, end_date, out,
                   ee_ready, aoi_built, idx, rows, last, returned, status>>

NextMR == CallMonthRanges

SpecMR == InitMR /\ [][NextMR]_vars

----------------------------------------------------------------------------
(* Properties *)

Rendered(w) == \E i \in 1..Len(out) : out[i] = w

\* C1: for start_date <= end_date the pairs yielded by month_ranges are
\* non-empty, contiguous (each exclusive end is the next start), hence
\* disjoint, the first starts at start_date and the last ends at
\* end_date + 1 day.
C1_ExactCover ==
    pc = "mr_done" =>
        /\ Len(ranges) >= 1
        /\ ranges[1][1] = start_date
        /\ ranges[Len(ranges)][2] = NextDay(end_date)
        /\ \A i \in 1..Len(ranges) : DateLT(ranges[i][1], ranges[i][2])
        /\ \A i \in 1..(Len(ranges) - 1) : ranges[i][2] = ranges[i + 1][1]

\* C2: a per-month remote failure (image count failing or zero, reduction
\* result absent or failing) leaves a row with pixel_count = 0 and
\* area_m2 = 0 for that month and never aborts the run.
C2_FailureYieldsZeroRow ==
    (/\ last.call # "none"
     /\ \/ last.resp.kind \in {"fail", "none"}
        \/ last.call = "size" /\ last.resp.val = 0)
    => /\ status # "aborted"
       /\ Len(rows) >= last.idx
       /\ rows[last.idx].pixel_count = 0
       /\ rows[last.idx].area_m2 = 0

\* C3: month_ranges(2024-12-15, 2025-01-10) yields exactly
\* [2024-12-15, 2025-01-01) and [2025-01-01, 2025-01-11).
C3_YearBoundary ==
    (/\ pc = "mr_done"
     /\ start_date = Date(2024, 12, 15)
     /\ end_date = Date(2025, 1, 10))
    => ranges = << <<Date(2024, 12, 15), Date(2025, 1, 1)>>,
                   <<Date(2025, 1, 1), Date(2025, 1, 11)>> >>

\* C4: month_ranges(d, d) yields the single pair [d, d + 1 day), and dates
\* of one calendar month yield exactly one pair.
C4_SameMonth ==
    pc = "mr_done" =>
        /\ start_date = end_date =>
               ranges = << <<start_date, NextDay(start_date)>> >>
        /\ (start_date.y = end_date.y /\ start_date.m = end_date.m) =>
               Len(ranges) = 1

\* something behind the login gate has been executed in the current run
BeyondGate ==
    \/ pc \notin {"gate", "idle"}
    \/ ee_ready
    \/ aoi_built
    \/ ranges # << >>
    \/ rows # << >>
    \/ last # NoCall
    \/ \E i \in 1..Len(out) : out[i] \notin {"login_form", "login_error"}

\* C5: nothing behind the login form is executed in a run in which
\* authenticated is false, and authenticated turns true only in a step
\* where the form was submitted with exactly the fixed username and password.
C5_LoginGate ==
    /\ [](BeyondGate => authenticated)
    /\ [][(~authenticated /\ authenticated') =>
              (clicked /\ u = "ndsa" /\ p = "cwprs")]_vars

C5_Witness ==
    /\ authenticated
    /\ ee_ready
    /\ aoi_built
    /\ Rendered("map")

\* C6: with start_date after end_date the run stops with the date error
\* before the AOI is built, before month_ranges is called and before any
\* remote query is issued.
C6_BadRangeStops ==
    DateLT(end_date, start_date) =>
        /\ ~aoi_built
        /\ ranges = << >>
        /\ last = NoCall
        /\ ~returned
        /\ pc \in {"idle", "gate", "init_ee", "date_check"}
        /\ (pc = "idle" /\ ee_ready) =>
               (status = "stopped" /\ Rendered("date_error"))

C6_Witness ==
    /\ DateLT(end_date, start_date)
    /\ pc = "idle"
    /\ ee_ready
    /\ status = "stopped"
    /\ Rendered("date_error")

\* C7 as stated: no map, table or chart is produced in a run before
\* compute_monthly_water_area has returned.
C7_NothingBeforeCompute ==
    (Rendered("map") \/ Rendered("table") \/ Rendered("chart")) => returned

\* C7 as amended: no table or chart is produced in a run before
\* compute_monthly_water_area has returned; the map is already rendered
\* when compute_monthly_water_area is called.
C7_TableChartAfterCompute ==
    /\ (Rendered("table") \/ Rendered("chart")) => returned
    /\ (pc \in {"compute", "q_size", "q_reduce"} \/ returned) =>
           Rendered("map")

C7_Witness ==
    /\ Rendered("table")
    /\ Rendered("chart")
    /\ returned
    /\ Len(rows) >= 2

\* C8: the remote calls of a month are issued only when the row of every
\* earlier month has been appended, the rows are those of the pairs of
\* month_ranges in the same ascending order, and the returned table has
\* exactly one row per pair.
C8_SequentialAscending ==
    /\ pc \in {"q_size", "q_reduce"} =>
           (idx \in 1..Len(ranges) /\ Len(rows) = idx - 1)
    /\ Len(rows) <= Len(ranges)
    /\ \A i \in 1..Len(rows) : rows[i].month = Label(ranges[i][1])
    /\ \A i \in 1..(Len(ranges) - 1) : DateLT(ranges[i][1], ranges[i + 1][1])
    /\ returned => Len(rows) = Len(ranges)

C8_Witness ==
    /\ returned
    /\ pc = "prepare"
    /\ Len(rows) >= 2
    /\ last.call # "none"

\* C9: every row has area_m2 = pixel_count * 100, the zero rows of empty
\* months and failed reductions included.
C9_AreaIsCountTimes100 ==
    \A i \in 1..Len(rows) : rows[i].area_m2 = rows[i].pixel_count * 100

C9_Witness ==
    /\ \E i \in 1..Len(rows) : rows[i].pixel_count > 0
    /\ \E i \in 1..Len(rows) : rows[i].pixel_count = 0
    /\ last.call = "reduce"
    /\ last.resp.kind = "fail"

====
